---------------------------- MODULE Spec2Model ----------------------------
(* A model of the signal-detection and trade-simulation core of the        *)
(* Algo_Trading_System data pipeline: calculate_indicators, run_backtest,  *)
(* check_buy_signal and the per-instrument body of main's live loop.       *)
(*                                                                         *)
(* Numbers.  Prices and indicator values are integers; a percentage is an  *)
(* exact fraction [num, den] with den > 0, so that the rounding done by    *)
(* the "%.2f" formatting is visible.  NaN and None are two integers        *)
(* outside every value domain, with their comparison rules stated below.   *)
(*                                                                         *)
(* Frames.  A DataFrame is [none, cols, rows]: none marks Python's None,   *)
(* cols is the set of column names, rows the sequence of rows in index     *)
(* order.  Each row carries its index label Date (a day number).  The      *)
(* closing prices themselves are not modelled, only the presence of the    *)
(* Close column: what the indicator library computes from them is the      *)
(* input ta_values.                                                        *)
EXTENDS Integers, Sequences, FiniteSets

VARIABLES
    stock_data,          \* the price frame handed in by the caller / data source
    ta_values,           \* per row of stock_data: what RSI(14), SMA(20), SMA(50) evaluate to
    pc,                  \* "idle", or the operation that has run
    bt_result,           \* what run_backtest returned (or that it raised)
    check_arg,           \* the frame passed to check_buy_signal
    sig_result,          \* what check_buy_signal returned
    live_signals_to_log, \* main's list of live signal rows
    processed,           \* backtest mode: per ticker handled so far, what its fetch and run gave
    all_trades,          \* backtest mode: main's list of trade logs
    logged,              \* backtest mode: what was handed to the logging functions
    bars_read            \* the pairs of rows the last call read as today and yesterday

vars == <<stock_data, ta_values, pc, bt_result, check_arg, sig_result, live_signals_to_log,
          processed, all_trades, logged, bars_read>>

\* the variables of main's backtest mode
mainVars == <<processed, all_trades, logged>>

-----------------------------------------------------------------------------
(* Bounds of the model.                                                    *)

\* longest price series
MaxLen == 10

-----------------------------------------------------------------------------
(* Values.                                                                 *)

NaN == -1
None == -2

\* the RSI threshold of the strategy
RsiThreshold == 30
\* the bars between the signal bar and the buy bar, and the sell bar
BuyOffset == 1
SellOffset == 6
\* the bars the scan leaves unvisited at the end of the series
ScanMargin == 6
\* the least number of cleaned bars run_backtest accepts
MinBars == 7

Min(a, b) == IF a < b THEN a ELSE b

\* Python's < > <= on floats: any comparison with NaN is False.
Lt(a, b) == a # NaN /\ b # NaN /\ a < b
Gt(a, b) == a # NaN /\ b # NaN /\ a > b
Le(a, b) == a # NaN /\ b # NaN /\ a <= b

NoneFrame == [none |-> TRUE, cols |-> {}, rows |-> <<>>]

Frame(cols, rows) == [none |-> FALSE, cols |-> cols, rows |-> rows]

\* DataFrame.empty
IsEmpty(df) == Len(df.rows) = 0

IndicatorCols == {"RSI", "SMA_20", "SMA_50"}


\* positional access, data.iloc[i]: 0-based, a negative i counts from the end
Iloc(rows, i) == rows[(IF i < 0 THEN Len(rows) + i ELSE i) + 1]

InRange(rows, i) == -Len(rows) <= i /\ i < Len(rows)

-----------------------------------------------------------------------------
(* indicators.py                                                           *)

\* one row with the three indicator columns set
WithIndicators(row, ta) ==
    [Date |-> row.Date, Open |-> row.Open,
     RSI |-> ta.RSI, SMA_20 |-> ta.SMA_20, SMA_50 |-> ta.SMA_50]

\* calculate_indicators(data): None without a Close column, else data with the
\* three columns added, one value per row (NaN while a window is not full)
CalculateIndicators(data, ta) ==
    IF data.none \/ "Close" \notin data.cols
    THEN NoneFrame
    ELSE Frame(data.cols \cup IndicatorCols,
               [k \in 1..Len(data.rows) |-> WithIndicators(data.rows[k], ta[k])])

\* the frame object handed to calculate_indicators, after the call: the
\* columns are assigned on the object itself (data['RSI'] = ...)
AssignIndicators(data, ta) ==
    IF data.none \/ "Close" \notin data.cols THEN data ELSE CalculateIndicators(data, ta)

-----------------------------------------------------------------------------
(* pandas: DataFrame.dropna()                                              *)

\* the columns whose values the model holds
ValueCols(df) == df.cols \ {"Close"}

RowHasNaN(df, row) == \E c \in ValueCols(df) : row[c] = NaN

RECURSIVE DropRows(_, _, _)
DropRows(df, k, kept) ==
    IF k > Len(df.rows) THEN kept
    ELSE DropRows(df, k + 1,
                  IF RowHasNaN(df, df.rows[k]) THEN kept ELSE Append(kept, df.rows[k]))

\* a cleaning that keeps every row
DropNaKeepsAll(df) == df

DropNa(df) == Frame(df.cols, DropRows(df, 1, <<>>))

-----------------------------------------------------------------------------
(* Fractions and the "%.2f" formatting.                                    *)

Frac(n, d) == [num |-> n, den |-> d]

FracAdd(a, b) == Frac(a.num * b.den + b.num * a.den, a.den * b.den)

FracPos(a) == a.num > 0

RECURSIVE SumReturns(_, _)
SumReturns(trades, k) ==
    IF k = 0 THEN Frac(0, 1)
    ELSE FracAdd(SumReturns(trades, k - 1), trades[k].Return)

\* a formatting that cuts the digits after the second decimal
Fmt2Truncated(x) ==
    LET n == 100 * x.num
    IN  IF n >= 0 THEN n \div x.den ELSE -((-n) \div x.den)

\* f"{x:.2f}%": x rounded to the nearest hundredth, ties to the even
\* hundredth; the text is held as its number of hundredths
Fmt2(x) ==
    LET n == 100 * x.num
        q == n \div x.den
        r == n % x.den
    IN  IF 2 * r < x.den THEN q
        ELSE IF 2 * r > x.den THEN q + 1
        ELSE IF q % 2 = 0 THEN q ELSE q + 1

Text(h) == [str |-> TRUE, hundredths |-> h]
Zero == [str |-> FALSE, hundredths |-> 0]

-----------------------------------------------------------------------------
(* backtest.py: run_backtest                                               *)

\* rsi_signal = today['RSI'] < 30
RsiSignal(today) == Lt(today.RSI, RsiThreshold)

\* a crossover that does not count equality on the day before
CrossoverSignalStrict(today, yesterday) ==
    /\ Gt(today.SMA_20, today.SMA_50)
    /\ Lt(yesterday.SMA_20, yesterday.SMA_50)

\* crossover_signal = today['SMA_20'] > today['SMA_50']
\*                    and yesterday['SMA_20'] <= yesterday['SMA_50']
CrossoverSignal(today, yesterday) ==
    /\ Gt(today.SMA_20, today.SMA_50)
    /\ Le(yesterday.SMA_20, yesterday.SMA_50)

\* a condition that looks at today's row only: SMA_20 above SMA_50, whatever
\* they were the day before
BuySignalAtTodayOnly(rows, i) ==
    LET today == Iloc(rows, i)
    IN  RsiSignal(today) /\ Gt(today.SMA_20, today.SMA_50)

\* the condition of the if at index i of the cleaned rows
BuySignalAt(rows, i) ==
    LET yesterday == Iloc(rows, i - 1)
        today == Iloc(rows, i)
    IN  RsiSignal(today) /\ CrossoverSignal(today, yesterday)

\* pct_return = ((sell_price - buy_price) / buy_price) * 100
PctReturn(buy_price, sell_price) == Frac((sell_price - buy_price) * 100, buy_price)

\* an outcome that counts a return of 0 as a win
TradeStatusNonNegative(pct_return) == IF pct_return.num >= 0 THEN "Win" ELSE "Loss"

\* 'Win' if pct_return > 0 else 'Loss'
TradeStatus(pct_return) == IF FracPos(pct_return) THEN "Win" ELSE "Loss"

\* the positions of the buy bar and of the sell bar for a signal at i
BuyIndex(i) == i + BuyOffset
SellIndex(i) == i + SellOffset

\* the dict appended to trades for a signal at i
TradeAt(rows, i) ==
    LET buy == Iloc(rows, BuyIndex(i))
        sell == Iloc(rows, SellIndex(i))
    IN  [Stock |-> "TICKER",
         BuyDate |-> buy.Date, BuyPrice |-> buy.Open,
         SellDate |-> sell.Date, SellPrice |-> sell.Open,
         Return |-> PctReturn(buy.Open, sell.Open),
         Status |-> TradeStatus(PctReturn(buy.Open, sell.Open))]

\* a loop that runs one index further
ScanStopLate(rows) == Len(rows) - ScanMargin + 1

\* a loop that starts one index earlier
ScanFirstEarly == BuyOffset - 1

\* range(1, len(data) - 6): the first index and the index the loop stops before
ScanFirst == 1
ScanStop(rows) == Len(rows) - ScanMargin

\* a scan that holds one position at a time: no signal is taken before the
\* sell bar of the last trade
RECURSIVE ScanLoopOnePosition(_, _, _)
ScanLoopOnePosition(rows, i, trades) ==
    IF i >= ScanStop(rows) THEN [raised |-> FALSE, trades |-> trades]
    ELSE IF ~BuySignalAt(rows, i) THEN ScanLoopOnePosition(rows, i + 1, trades)
    ELSE IF trades # <<>> /\ Iloc(rows, i).Date < trades[Len(trades)].SellDate
         THEN ScanLoopOnePosition(rows, i + 1, trades)
    ELSE ScanLoopOnePosition(rows, i + 1, Append(trades, TradeAt(rows, i)))

\* the for loop from index i on: the trades list it leaves, and whether a
\* positional access fell outside the rows (IndexError)
RECURSIVE ScanLoop(_, _, _)
ScanLoop(rows, i, trades) ==
    IF i >= ScanStop(rows) THEN [raised |-> FALSE, trades |-> trades]
    ELSE IF ~(InRange(rows, i - 1) /\ InRange(rows, i))
         THEN [raised |-> TRUE, trades |-> trades]
    ELSE IF ~BuySignalAt(rows, i) THEN ScanLoop(rows, i + 1, trades)
    ELSE IF ~(InRange(rows, BuyIndex(i)) /\ InRange(rows, SellIndex(i)))
         THEN [raised |-> TRUE, trades |-> trades]
    ELSE ScanLoop(rows, i + 1, Append(trades, TradeAt(rows, i)))

\* the rows the loop reads at the indices it visits: today = data.iloc[i],
\* yesterday = data.iloc[i-1]
ScanReads(rows) ==
    {[i |-> i, today |-> Iloc(rows, i), yesterday |-> Iloc(rows, i - 1)] :
        i \in ScanFirst..(ScanStop(rows) - 1)}

Wins(trades) == Cardinality({k \in 1..Len(trades) : trades[k].Status = "Win"})

\* win_ratio = (wins / total_trades) * 100
WinRatio(trades) == Frac(Wins(trades) * 100, Len(trades))

\* avg_return = trade_log_df['Return (%)'].mean()
AvgReturn(trades) ==
    LET s == SumReturns(trades, Len(trades))
    IN  Frac(s.num, s.den * Len(trades))

ReturnedNone ==
    [kind |-> "None", total_trades |-> 0, win_ratio |-> Zero, avg_return |-> Zero,
     trade_log |-> <<>>]

Raised ==
    [kind |-> "raised", total_trades |-> 0, win_ratio |-> Zero, avg_return |-> Zero,
     trade_log |-> <<>>]

\* no summary when trades is empty
EmptySummaryDropped == ReturnedNone

\* the summary returned when trades is empty
EmptySummary ==
    [kind |-> "summary", total_trades |-> 0, win_ratio |-> Zero, avg_return |-> Zero,
     trade_log |-> <<>>]

\* the summary of a non-empty trades list
Summary(trades) ==
    [kind |-> "summary", total_trades |-> Len(trades),
     win_ratio |-> Text(Fmt2(WinRatio(trades))),
     avg_return |-> Text(Fmt2(AvgReturn(trades))),
     trade_log |-> trades]

\* a guard that lets 6 bars through
TooShortByOne(rows) == Len(rows) < MinBars - 1

\* the guard on the cleaned data: too few bars to backtest
TooShort(rows) == Len(rows) < MinBars

\* run_backtest(stock_data, ticker)
RunBacktestOn(data, ta) ==
    IF data.none \/ IsEmpty(data) THEN ReturnedNone
    ELSE LET computed == CalculateIndicators(data, ta)
         IN  IF computed.none THEN Raised    \* None.dropna(): AttributeError
             ELSE LET rows == DropNa(computed).rows
                      scan == ScanLoop(rows, ScanFirst, <<>>)
                  IN  IF TooShort(rows) THEN ReturnedNone
                      ELSE IF scan.raised THEN Raised
                      ELSE IF scan.trades = <<>> THEN EmptySummary
                      ELSE Summary(scan.trades)

\* the rows run_backtest reads as today and yesterday
RunBacktestReads(data, ta) ==
    IF data.none \/ IsEmpty(data) THEN {}
    ELSE LET computed == CalculateIndicators(data, ta)
         IN  IF computed.none THEN {}
             ELSE LET rows == DropNa(computed).rows
                  IN  IF TooShort(rows) THEN {} ELSE ScanReads(rows)

\* a run that hands the caller's frame itself to calculate_indicators
IndicatorTargetCaller == "caller"

\* the frame object handed to calculate_indicators: stock_data.copy()
IndicatorTarget == "copy"

\* the frame objects when run_backtest is over: the caller's, and the copy
\* made of it once the None and empty checks are passed
FramesAfterRunBacktest(stock_data_arg, ta) ==
    LET frames == [caller |-> stock_data_arg, copy |-> stock_data_arg]
    IN  IF stock_data_arg.none \/ IsEmpty(stock_data_arg) THEN frames
        ELSE [frames EXCEPT ![IndicatorTarget] = AssignIndicators(@, ta)]

-----------------------------------------------------------------------------
(* signal_logic.py: check_buy_signal                                       *)

NoSignalInfo ==
    [called |-> TRUE, buy_signal |-> FALSE,
     latest_rsi |-> None, latest_sma_20 |-> None, latest_sma_50 |-> None]

NotCalled ==
    [called |-> FALSE, buy_signal |-> FALSE,
     latest_rsi |-> None, latest_sma_20 |-> None, latest_sma_50 |-> None]

\* data is None or not all(k in data.columns for k in ['RSI', 'SMA_20', 'SMA_50'])
MissingIndicators(data) == data.none \/ ~(IndicatorCols \subseteq data.cols)

\* the least number of cleaned bars check_buy_signal accepts
MinSignalBars == 2

\* a latest-signal condition that does not count equality on the day before
LatestBuySignalStrict(latest_data, previous_data) ==
    /\ Lt(latest_data.RSI, RsiThreshold)
    /\ Gt(latest_data.SMA_20, latest_data.SMA_50)
    /\ Lt(previous_data.SMA_20, previous_data.SMA_50)

\* rsi_condition and crossover_condition on the last two cleaned rows
LatestBuySignal(latest_data, previous_data) ==
    LET rsi_condition == Lt(latest_data.RSI, RsiThreshold)
        crossover_condition ==
            /\ Gt(latest_data.SMA_20, latest_data.SMA_50)
            /\ Le(previous_data.SMA_20, previous_data.SMA_50)
    IN  rsi_condition /\ crossover_condition

\* a check that reads the last two rows without cleaning first
CheckBuySignalOnUncleaned(data) ==
    IF MissingIndicators(data) THEN NoSignalInfo
    ELSE LET rows == data.rows
         IN  IF Len(rows) < MinSignalBars THEN NoSignalInfo
             ELSE [called |-> TRUE,
                   buy_signal |-> LatestBuySignal(Iloc(rows, -1), Iloc(rows, -2)),
                   latest_rsi |-> Iloc(rows, -1).RSI,
                   latest_sma_20 |-> Iloc(rows, -1).SMA_20,
                   latest_sma_50 |-> Iloc(rows, -1).SMA_50]

\* check_buy_signal(data)
CheckBuySignalOn(data) ==
    IF MissingIndicators(data) THEN NoSignalInfo
    ELSE LET rows == DropNa(data).rows
         IN  IF Len(rows) < MinSignalBars THEN NoSignalInfo
             ELSE LET latest_data == Iloc(rows, -1)
                      previous_data == Iloc(rows, -2)
                  IN  [called |-> TRUE,
                       buy_signal |-> LatestBuySignal(latest_data, previous_data),
                       latest_rsi |-> latest_data.RSI,
                       latest_sma_20 |-> latest_data.SMA_20,
                       latest_sma_50 |-> latest_data.SMA_50]

\* the rows check_buy_signal reads as latest_data and previous_data
CheckBuySignalReads(data) ==
    IF MissingIndicators(data) THEN {}
    ELSE LET rows == DropNa(data).rows
         IN  IF Len(rows) < MinSignalBars THEN {}
             ELSE {[i |-> -1, today |-> Iloc(rows, -1), yesterday |-> Iloc(rows, -2)]}

\* the frame objects when check_buy_signal is over: the caller's, and the
\* one data.dropna() built, to which the local name was rebound
FramesAfterCheckBuySignal(data) ==
    [caller |-> data,
     cleaned |-> IF MissingIndicators(data) THEN data ELSE DropNa(data)]

-----------------------------------------------------------------------------
(* fetch_data.py and main.py (live mode)                                   *)

\* fetch_stock_data: None when the source raises or has no rows
FetchStockData(source) == IF source.none \/ IsEmpty(source) THEN NoneFrame ELSE source

\* the dict appended to live_signals_to_log
SignalRow(r) ==
    [Stock |-> "TICKER", RSI |-> r.latest_rsi, SMA_20 |-> r.latest_sma_20,
     SMA_50 |-> r.latest_sma_50, Signal |-> r.buy_signal]

-----------------------------------------------------------------------------
(* main.py (backtest mode)                                                 *)

\* nifty_50_stocks
Tickers == <<"RELIANCE.NS", "INFY.NS", "TCS.NS">>

\* run_backtest(stock_data, stock_ticker): the records carry the ticker
RunBacktestFor(data, ta, ticker) ==
    LET r == RunBacktestOn(data, ta)
    IN  [r EXCEPT !.trade_log =
            [k \in 1..Len(r.trade_log) |-> [r.trade_log[k] EXCEPT !.Stock = ticker]]]

\* a test that keeps every result, also one without trades
KeepResultAny(results) == results.kind = "summary"

\* if results and not results['trade_log'].empty
KeepResult(results) == results.kind = "summary" /\ results.trade_log # <<>>

\* pd.concat(all_trades, ignore_index=True)
RECURSIVE Concat(_)
Concat(logs) == IF logs = <<>> THEN <<>> ELSE Head(logs) \o Concat(Tail(logs))

\* overall_summary
OverallSummary(combined_trade_log) ==
    [total_trades |-> Len(combined_trade_log),
     win_ratio |-> Text(Fmt2(WinRatio(combined_trade_log))),
     avg_return |-> Text(Fmt2(AvgReturn(combined_trade_log)))]

NotLogged ==
    [done |-> FALSE, trade_log |-> <<>>,
     summary |-> [total_trades |-> 0, win_ratio |-> Zero, avg_return |-> Zero]]

\* log_backtest_results(combined_trade_log); log_summary_stats(overall_summary)
Logged(combined_trade_log) ==
    [done |-> TRUE, trade_log |-> combined_trade_log,
     summary |-> OverallSummary(combined_trade_log)]

-----------------------------------------------------------------------------
(* The inputs.                                                             *)

\* the open prices: two values whose ratio is no whole number of hundredths
\* of a percent (3 -> 2 is -33.33..%, 2 -> 3 is +50%)
Prices == {2, 3}

\* the indicator values of a series repeat a pattern of at most this many
\* bars: as many as the scan of the longest series reads
PatternLen == MaxLen - ScanMargin

\* the indicator values of one bar with every window full: SMA_50 is the
\* middle value, SMA_20 is below, on or above it, RSI is just under the
\* threshold or on it
SmaMid == 2
DefinedChoices ==
    {[RSI |-> RsiThreshold - 1, SMA_20 |-> s, SMA_50 |-> SmaMid] : s \in {SmaMid - 1, SmaMid, SmaMid + 1}}
    \cup {[RSI |-> RsiThreshold, SMA_20 |-> SmaMid + 1, SMA_50 |-> SmaMid]}

\* the same, or a bar whose 50-bar window is not full yet
FeatureChoices ==
    DefinedChoices \cup {[RSI |-> RsiThreshold - 1, SMA_20 |-> SmaMid + 1, SMA_50 |-> NaN]}

\* the open prices of a series: p0 before bar c, p1 from bar c on
OpenAt(k, p0, p1, c) == IF k < c THEN p0 ELSE p1

PriceRows(len, p0, p1, c) == [k \in 1..len |-> [Date |-> k, Open |-> OpenAt(k, p0, p1, c)]]

\* a pattern of indicator values: its first bar and the bars after it
Pattern(first, rest) == [k \in 1..(Len(rest) + 1) |-> IF k = 1 THEN first ELSE rest[k - 1]]

\* the values of a bar once its windows are full
Filled(bar) == IF bar.SMA_50 = NaN THEN [bar EXCEPT !.SMA_50 = SmaMid] ELSE bar

\* the indicator values of a series: a pattern repeated, with full windows
\* from the first repetition on
Repeated(len, pattern) ==
    [k \in 1..len |-> IF k <= Len(pattern) THEN pattern[k]
                      ELSE Filled(pattern[((k - 1) % Len(pattern)) + 1])]

PriceCols == {"Open", "Close"}

Untouched ==
    /\ pc = "idle"
    /\ bt_result = ReturnedNone
    /\ check_arg = NoneFrame
    /\ sig_result = NotCalled
    /\ live_signals_to_log = <<>>
    /\ processed = <<>>
    /\ all_trades = <<>>
    /\ logged = NotLogged
    /\ bars_read = {}

\* no data at all
InitNone ==
    /\ stock_data = NoneFrame
    /\ ta_values = <<>>

\* a frame without the Close column
InitNoClose ==
    \E len \in 0..MaxLen, p \in Prices :
        /\ stock_data = Frame({"Open"}, PriceRows(len, p, p, 1))
        /\ ta_values = <<>>

\* a frame of prices and what the indicators evaluate to on it; only the
\* first bar of the pattern may be one with a window that is not full
InitPrices ==
    \E len \in 0..MaxLen :
        \E first \in FeatureChoices :
            \E rest \in [1..(Min(len, PatternLen) - 1) -> DefinedChoices] :
                \E p0 \in Prices, p1 \in Prices :
                    \E c \in IF p0 = p1 THEN {1} ELSE 2..len :
                        /\ stock_data = Frame(PriceCols, PriceRows(len, p0, p1, c))
                        /\ ta_values = IF len = 0 THEN <<>>
                                       ELSE Repeated(len, Pattern(first, rest))

Init ==
    /\ Untouched
    /\ (InitNone \/ InitNoClose \/ InitPrices)

-----------------------------------------------------------------------------
(* The operations.                                                         *)

\* run_backtest(stock_data, ticker)
RunBacktest ==
    /\ pc = "idle"
    /\ pc' = "backtest"
    /\ bt_result' = RunBacktestOn(stock_data, ta_values)
    /\ stock_data' = FramesAfterRunBacktest(stock_data, ta_values).caller
    /\ bars_read' = RunBacktestReads(stock_data, ta_values)
    /\ UNCHANGED <<ta_values, check_arg, sig_result, live_signals_to_log>>
    /\ UNCHANGED mainVars

\* the frames a caller can pass to check_buy_signal: the prices alone (None
\* when there are none), or the prices with their indicators
CheckArgs ==
    {stock_data, CalculateIndicators(stock_data, ta_values)}

\* check_buy_signal(data)
CheckBuySignal ==
    /\ pc = "idle"
    /\ \E data \in CheckArgs :
        /\ check_arg' = FramesAfterCheckBuySignal(data).caller
        /\ sig_result' = CheckBuySignalOn(data)
        /\ bars_read' = CheckBuySignalReads(data)
    /\ pc' = "check"
    /\ UNCHANGED <<stock_data, ta_values, bt_result, live_signals_to_log>>
    /\ UNCHANGED mainVars

\* the body of main's live loop for one ticker
LiveIteration ==
    /\ pc = "idle"
    /\ pc' = "live"
    /\ LET fetched == FetchStockData(stock_data)
           data_with_indicators == CalculateIndicators(fetched, ta_values)
           r == CheckBuySignalOn(data_with_indicators)
       IN  IF fetched.none \/ data_with_indicators.none
           THEN UNCHANGED <<check_arg, sig_result, live_signals_to_log, bars_read>>
           ELSE /\ check_arg' = FramesAfterCheckBuySignal(data_with_indicators).caller
                /\ bars_read' = CheckBuySignalReads(data_with_indicators)
                /\ sig_result' = r
                /\ live_signals_to_log' =
                       IF r.latest_rsi # None
                       THEN Append(live_signals_to_log, SignalRow(r))
                       ELSE live_signals_to_log
    /\ UNCHANGED <<stock_data, ta_values, bt_result>>
    /\ UNCHANGED mainVars

Next == RunBacktest \/ CheckBuySignal \/ LiveIteration

Spec == Init /\ [][Next]_vars

-----------------------------------------------------------------------------
(* main.py, backtest mode: the loop over the tickers and the logging.      *)

\* what the data source can yield for a ticker: nothing (an error), no rows,
\* too few bars, or a full series with a crossover, or none, at bars 1 and 3
\* and a price change after the first buy bar
MainPattern(x, y) ==
    LET below == [RSI |-> RsiThreshold - 1, SMA_20 |-> SmaMid - 1, SMA_50 |-> SmaMid]
    IN  <<below, x, below, y>>

MainSources ==
    {[data |-> NoneFrame, ta |-> <<>>], [data |-> Frame(PriceCols, <<>>), ta |-> <<>>]}
    \cup {[data |-> Frame(PriceCols, PriceRows(len, p0, p1, 4)),
           ta |-> Repeated(len, MainPattern(x, y))] :
              len \in {MinBars - 1, MaxLen}, p0 \in Prices, p1 \in Prices,
              x \in DefinedChoices, y \in DefinedChoices}

InitMain ==
    /\ pc = "main"
    /\ stock_data = NoneFrame
    /\ ta_values = <<>>
    /\ bt_result = ReturnedNone
    /\ check_arg = NoneFrame
    /\ sig_result = NotCalled
    /\ live_signals_to_log = <<>>
    /\ processed = <<>>
    /\ all_trades = <<>>
    /\ logged = NotLogged
    /\ bars_read = {}

\* the body of the backtest loop for the next ticker; a fault raised by
\* run_backtest ends main
BacktestIteration ==
    /\ pc = "main"
    /\ Len(processed) < Len(Tickers)
    /\ \E source \in MainSources :
          LET stock_ticker == Tickers[Len(processed) + 1]
              fetched == FetchStockData(source.data)
              results == RunBacktestFor(fetched, source.ta, stock_ticker)
          IN  /\ processed' = Append(processed,
                      [ticker |-> stock_ticker, fetched_none |-> fetched.none,
                       results |-> results])
              /\ all_trades' = IF KeepResult(results)
                               THEN Append(all_trades, results.trade_log)
                               ELSE all_trades
              /\ bars_read' = RunBacktestReads(fetched, source.ta)
              /\ pc' = IF results.kind = "raised" THEN "main_raised" ELSE "main"
    /\ UNCHANGED <<stock_data, ta_values, bt_result, check_arg, sig_result,
                   live_signals_to_log, logged>>

\* after the loop: the combined log and its summary are logged if all_trades
\* is not empty
LogResults ==
    /\ pc = "main"
    /\ Len(processed) = Len(Tickers)
    /\ logged' = IF all_trades # <<>> THEN Logged(Concat(all_trades)) ELSE NotLogged
    /\ pc' = "main_done"
    /\ UNCHANGED <<stock_data, ta_values, bt_result, check_arg, sig_result,
                   live_signals_to_log, processed, all_trades, bars_read>>

NextMain == BacktestIteration \/ LogResults

SpecMain == InitMain /\ [][NextMain]_vars

-----------------------------------------------------------------------------
(* What the properties are stated in: the cleaned bars, written without    *)
(* the operators of the model above.                                       *)

\* the bars of a frame with all three indicators defined
AllDefined(row) == row.RSI # NaN /\ row.SMA_20 # NaN /\ row.SMA_50 # NaN /\ row.Open # NaN

\* the bars of the prices with their indicator values, undefined ones included
FeatureBars ==
    [k \in 1..Len(stock_data.rows) |->
        [Date |-> stock_data.rows[k].Date, Open |-> stock_data.rows[k].Open,
         RSI |-> ta_values[k].RSI, SMA_20 |-> ta_values[k].SMA_20,
         SMA_50 |-> ta_values[k].SMA_50]]

HasClose == ~stock_data.none /\ "Close" \in stock_data.cols

\* the cleaned series of the prices; bar i of the text is Bars[i + 1]
Bars == IF HasClose /\ Len(ta_values) = Len(stock_data.rows)
        THEN SelectSeq(FeatureBars, AllDefined) ELSE <<>>

\* the cleaned series of the frame given to check_buy_signal
CheckedBars ==
    IF ~check_arg.none /\ IndicatorCols \subseteq check_arg.cols
    THEN SelectSeq(check_arg.rows, AllDefined) ELSE <<>>

\* the entry condition at index i of a cleaned series
EntryCondition(bars, i) ==
    /\ bars[i + 1].RSI < 30
    /\ bars[i + 1].SMA_20 > bars[i + 1].SMA_50
    /\ bars[i].SMA_20 <= bars[i].SMA_50

\* the indices the backtest scans, and those of them where the condition holds
ScanRange == 1..(Len(Bars) - 7)
SignalIndices == {i \in ScanRange : EntryCondition(Bars, i)}

\* the backtest has returned a summary
Summarised == pc = "backtest" /\ bt_result.kind = "summary"

\* the trade log holds a record bought on the bar after index i
RecordFor(i) ==
    \E k \in 1..Len(bt_result.trade_log) :
        bt_result.trade_log[k].BuyDate = Bars[i + 2].Date

\* check_buy_signal has returned, on a frame with at least two cleaned bars
Checked == sig_result.called /\ Len(CheckedBars) >= 2

-----------------------------------------------------------------------------
(* C1 *)

\* C1: at every index i of the cleaned series, the entry signal is true
\* exactly when rsi[i] < 30, sma20[i] > sma50[i] and sma20[i-1] <= sma50[i-1]:
\* the backtest emits a record for a scanned index exactly then, and the
\* latest-signal check answers true for the last index exactly then.
C1_SignalIffCondition ==
    /\ Summarised =>
          \A i \in ScanRange : RecordFor(i) <=> EntryCondition(Bars, i)
    /\ Checked =>
          (sig_result.buy_signal <=> EntryCondition(CheckedBars, Len(CheckedBars) - 1))

\* a record emitted for an index whose previous bar has sma20 = sma50, beside
\* a scanned index with a crossover but rsi = 30 and no record
C1_Witness ==
    /\ Summarised
    /\ \E i \in ScanRange :
          /\ RecordFor(i)
          /\ Bars[i].SMA_20 = Bars[i].SMA_50
    /\ \E j \in ScanRange :
          /\ ~RecordFor(j)
          /\ Bars[j + 1].RSI = 30
          /\ Bars[j + 1].SMA_20 > Bars[j + 1].SMA_50
          /\ Bars[j].SMA_20 <= Bars[j].SMA_50

-----------------------------------------------------------------------------
(* C2 *)

\* the k-th scanned index, in increasing order, at which the condition holds
NthSignal(k) ==
    CHOOSE i \in SignalIndices : Cardinality({j \in SignalIndices : j < i}) = k

\* C2: on a cleaned series of at least 7 bars run_backtest returns a summary
\* whose trade log holds exactly one record per index i of 1..length-7 where
\* the signal holds, in increasing order of i, and none for any other index;
\* the record for i is bought on bar i+1 at its open and sold on bar i+6 at its
\* open, a bar that is always inside the series.
C2_OneRecordPerSignal ==
    (pc = "backtest" /\ HasClose /\ Len(Bars) >= 7) =>
        /\ bt_result.kind = "summary"
        /\ Len(bt_result.trade_log) = Cardinality(SignalIndices)
        /\ \A k \in 1..Len(bt_result.trade_log) :
              LET i == NthSignal(k - 1)
                  t == bt_result.trade_log[k]
              IN  /\ i + 7 <= Len(Bars)
                  /\ t.BuyDate = Bars[i + 2].Date
                  /\ t.BuyPrice = Bars[i + 2].Open
                  /\ t.SellDate = Bars[i + 7].Date
                  /\ t.SellPrice = Bars[i + 7].Open

\* two records, the second for the last scanned index and sold on the last
\* bar of the series
C2_Witness ==
    /\ Summarised
    /\ Len(bt_result.trade_log) = 2
    /\ Len(Bars) - 7 \in SignalIndices
    /\ bt_result.trade_log[2].SellDate = Bars[Len(Bars)].Date
    /\ bt_result.trade_log[2].SellPrice # bt_result.trade_log[2].BuyPrice

-----------------------------------------------------------------------------
(* C3 *)

\* C3: every record of the trade log has return_pct = (exit_price -
\* entry_price) / entry_price * 100 and outcome Win exactly when that is
\* above 0; a record with exit price = entry price is a Loss, and the
\* outcome is never anything but Win or Loss.
C3_ReturnAndOutcome ==
    Summarised =>
        \A k \in 1..Len(bt_result.trade_log) :
            LET t == bt_result.trade_log[k]
            IN  /\ t.Return.den > 0
                /\ t.Return.num * t.BuyPrice
                       = (t.SellPrice - t.BuyPrice) * 100 * t.Return.den
                /\ t.Status \in {"Win", "Loss"}
                /\ t.Status = "Win" <=> (t.SellPrice - t.BuyPrice) * 100 > 0
                /\ t.SellPrice = t.BuyPrice => t.Status = "Loss"

\* a log with a record of return 0, marked Loss, and a record that is a Win
C3_Witness ==
    /\ Summarised
    /\ \E k \in 1..Len(bt_result.trade_log) :
          /\ bt_result.trade_log[k].SellPrice = bt_result.trade_log[k].BuyPrice
          /\ bt_result.trade_log[k].Status = "Loss"
    /\ \E k \in 1..Len(bt_result.trade_log) : bt_result.trade_log[k].Status = "Win"

-----------------------------------------------------------------------------
(* C4 *)

\* C4: when the price input is absent or empty, or the cleaned series has
\* fewer than 7 bars, run_backtest returns None, not a summary and not a
\* fault, and emits no trade record.
C4_NoResultSentinel ==
    (/\ pc = "backtest"
     /\ \/ stock_data.none
        \/ Len(stock_data.rows) = 0
        \/ HasClose /\ Len(Bars) < 7)
    => /\ bt_result.kind = "None"
       /\ bt_result.trade_log = <<>>

\* None returned for prices of 7 bars or more of which 6 are left by cleaning
C4_Witness ==
    /\ pc = "backtest"
    /\ HasClose
    /\ Len(stock_data.rows) >= 7
    /\ Len(Bars) = 6
    /\ bt_result.kind = "None"

-----------------------------------------------------------------------------
(* C5 *)

\* C5: when the cleaned series has at least 7 bars and the signal holds at no
\* scanned index, run_backtest returns a summary with total_trades = 0, win
\* ratio 0, average return 0 and an empty trade log.
C5_ZeroTradeSummary ==
    (pc = "backtest" /\ HasClose /\ Len(Bars) >= 7 /\ SignalIndices = {}) =>
        /\ bt_result.kind = "summary"
        /\ bt_result.total_trades = 0
        /\ bt_result.win_ratio = [str |-> FALSE, hundredths |-> 0]
        /\ bt_result.avg_return = [str |-> FALSE, hundredths |-> 0]
        /\ bt_result.trade_log = <<>>

\* a summary of no trades for a series with scanned bars, one of them a
\* crossover that the RSI rules out
C5_Witness ==
    /\ Summarised
    /\ Len(Bars) >= 8
    /\ SignalIndices = {}
    /\ \E i \in ScanRange :
          Bars[i + 1].SMA_20 > Bars[i + 1].SMA_50 /\ Bars[i].SMA_20 <= Bars[i].SMA_50
    /\ bt_result.total_trades = 0

-----------------------------------------------------------------------------
(* C6 *)

\* the trades a scan of the cleaned series emits: their number, and how many
\* of them are sold above the price they were bought at
TradesN == Cardinality(SignalIndices)
TradesW == Cardinality({i \in SignalIndices : Bars[i + 7].Open > Bars[i + 2].Open})

\* the mean of the emitted trades' return_pct, as MeanNum / MeanDen: the
\* returns are brought over the product of the entry prices
RECURSIVE EntryProduct(_)
EntryProduct(idx) ==
    IF idx = {} THEN 1
    ELSE LET i == CHOOSE x \in idx : TRUE
         IN  Bars[i + 2].Open * EntryProduct(idx \ {i})

RECURSIVE ReturnSum(_, _)
ReturnSum(idx, d) ==
    IF idx = {} THEN 0
    ELSE LET i == CHOOSE x \in idx : TRUE
         IN  (Bars[i + 7].Open - Bars[i + 2].Open) * 100 * (d \div Bars[i + 2].Open)
                 + ReturnSum(idx \ {i}, d)

MeanDen == EntryProduct(SignalIndices) * TradesN
MeanNum == ReturnSum(SignalIndices, EntryProduct(SignalIndices))

Abs(x) == IF x < 0 THEN -x ELSE x

\* the records of the log are in the order of their signal bars
InEmissionOrder ==
    \A k \in 1..Len(bt_result.trade_log) - 1 :
        bt_result.trade_log[k].BuyDate < bt_result.trade_log[k + 1].BuyDate

\* C6, as claimed: for N > 0 emitted trades of which W are wins the summary
\* reports total_trades = N, win_ratio_pct = 100*W/N exactly and
\* avg_return_pct = the arithmetic mean of the return_pct exactly, and its
\* trade log is the emitted sequence in emission order.
C6_ExactRatios ==
    (Summarised /\ TradesN > 0) =>
        /\ bt_result.total_trades = TradesN
        /\ bt_result.win_ratio.hundredths * TradesN = 10000 * TradesW
        /\ bt_result.avg_return.hundredths * MeanDen = 100 * MeanNum
        /\ Len(bt_result.trade_log) = TradesN
        /\ InEmissionOrder

\* C6, amended: for N > 0 emitted trades of which W are wins the summary
\* reports total_trades = N, and win_ratio and avg_return as the texts
\* "x.xx%" of 100*W/N and of the arithmetic mean of the return_pct rounded to
\* two decimals (each within 0.005 of the exact value); its trade log is the
\* emitted sequence in emission order.
C6_RoundedRatios ==
    (Summarised /\ TradesN > 0) =>
        /\ bt_result.total_trades = TradesN
        /\ bt_result.win_ratio.str
        /\ Abs(bt_result.win_ratio.hundredths * TradesN - 10000 * TradesW) * 2 <= TradesN
        /\ bt_result.avg_return.str
        /\ Abs(bt_result.avg_return.hundredths * MeanDen - 100 * MeanNum) * 2 <= MeanDen
        /\ Len(bt_result.trade_log) = TradesN
        /\ InEmissionOrder

\* two trades whose mean return is no whole number of hundredths of a
\* percent, reported to two decimals
C6_Witness ==
    /\ Summarised
    /\ TradesN = 2
    /\ bt_result.total_trades = 2
    /\ bt_result.avg_return.str
    /\ bt_result.avg_return.hundredths * MeanDen # 100 * MeanNum

-----------------------------------------------------------------------------
(* C7 *)

\* the log holds the record of the trade for signal index i
OwnRecord(i, k) ==
    /\ bt_result.trade_log[k].BuyDate = Bars[i + 2].Date
    /\ bt_result.trade_log[k].SellDate = Bars[i + 7].Date

\* C7: the scan keeps no position state: any two scanned indices i < j where
\* the signal holds both have their own record in the log, also when j's
\* entry bar comes before i's exit bar (j <= i + 5), so that the two holding
\* windows overlap.
C7_OverlappingTradesKept ==
    Summarised =>
        \A i \in SignalIndices : \A j \in SignalIndices :
            i < j =>
                \E k \in 1..Len(bt_result.trade_log) :
                    \E m \in 1..Len(bt_result.trade_log) :
                        /\ k # m
                        /\ OwnRecord(i, k)
                        /\ OwnRecord(j, m)
                        /\ j <= i + 5 =>
                              bt_result.trade_log[m].BuyDate <= bt_result.trade_log[k].SellDate

\* signals two bars apart, both recorded, the second bought while the first
\* is still held
C7_Witness ==
    /\ Summarised
    /\ \E i \in SignalIndices : i + 2 \in SignalIndices
    /\ Len(bt_result.trade_log) = 2
    /\ bt_result.trade_log[2].BuyDate < bt_result.trade_log[1].SellDate

-----------------------------------------------------------------------------
(* C8 *)

\* C8: on every frame with at least 2 cleaned bars, the boolean returned by
\* check_buy_signal is the value of run_backtest's entry condition at index
\* length-1 of the same cleaned series.
C8_LatestAgreesWithBacktest ==
    Checked =>
        sig_result.buy_signal = BuySignalAt(CheckedBars, Len(CheckedBars) - 1)

\* a check that answered true on a series that lost a bar in cleaning
C8_Witness ==
    /\ Checked
    /\ sig_result.buy_signal
    /\ Len(CheckedBars) < Len(check_arg.rows)

-----------------------------------------------------------------------------
(* C9 *)

\* C9: check_buy_signal returns false with rsi, sma20 and sma50 all None when
\* its input is absent, lacks an indicator column or has fewer than 2 cleaned
\* bars, and otherwise returns the rsi, sma20 and sma50 of the last cleaned
\* bar; the live loop records a signal row for the instrument exactly when the
\* returned rsi is not None.
C9_SignalInfo ==
    /\ sig_result.called =>
          IF Len(CheckedBars) < 2
          THEN /\ ~sig_result.buy_signal
               /\ sig_result.latest_rsi = None
               /\ sig_result.latest_sma_20 = None
               /\ sig_result.latest_sma_50 = None
          ELSE /\ sig_result.latest_rsi = CheckedBars[Len(CheckedBars)].RSI
               /\ sig_result.latest_sma_20 = CheckedBars[Len(CheckedBars)].SMA_20
               /\ sig_result.latest_sma_50 = CheckedBars[Len(CheckedBars)].SMA_50
    /\ pc = "live" =>
          IF sig_result.called /\ sig_result.latest_rsi # None
          THEN /\ Len(live_signals_to_log) = 1
               /\ live_signals_to_log[1].RSI = sig_result.latest_rsi
               /\ live_signals_to_log[1].Signal = sig_result.buy_signal
          ELSE live_signals_to_log = <<>>

\* the live loop checked prices of 2 bars or more that cleaning left with
\* fewer than 2, and recorded no row
C9_Witness ==
    /\ pc = "live"
    /\ sig_result.called
    /\ Len(check_arg.rows) >= 2
    /\ Len(CheckedBars) < 2
    /\ sig_result.latest_rsi = None
    /\ live_signals_to_log = <<>>

-----------------------------------------------------------------------------
(* C10 *)

\* C10: for every input, a non-empty price series without the Close column
\* included, run_backtest ends by returning a summary or None, never in a
\* raised fault.
C10_NeverRaises ==
    pc = "backtest" => bt_result.kind \in {"summary", "None"}

-----------------------------------------------------------------------------
(* C11 *)

\* the k-th ticker handled is one whose trade log goes into the combined log:
\* its fetch gave data, its run gave a result, and the result has a trade
Remaining(k) ==
    /\ ~processed[k].fetched_none
    /\ processed[k].results.kind = "summary"
    /\ processed[k].results.total_trades > 0

\* the trade logs of the remaining tickers among the first k, one after another
RECURSIVE LogsUpTo(_)
LogsUpTo(k) ==
    IF k = 0 THEN <<>>
    ELSE LogsUpTo(k - 1) \o (IF Remaining(k) THEN processed[k].results.trade_log ELSE <<>>)

RECURSIVE TradesUpTo(_)
TradesUpTo(k) ==
    IF k = 0 THEN 0
    ELSE TradesUpTo(k - 1) + (IF Remaining(k) THEN processed[k].results.total_trades ELSE 0)

\* C11: in backtest mode the tickers are handled one by one in list order,
\* each once; a ticker whose fetch gives no data, whose run gives no result or
\* whose run gives no trade is passed over and the loop goes on to the end of
\* the list; the combined trade log is the trade logs of the other tickers one
\* after another in ticker order, as long as the sum of their total_trades;
\* and results are logged exactly when some ticker produced a trade.
C11_LoopAndCombinedLog ==
    /\ pc \in {"main", "main_done"}
    /\ Len(processed) <= Len(Tickers)
    /\ \A k \in 1..Len(processed) : processed[k].ticker = Tickers[k]
    /\ Len(all_trades) = Cardinality({k \in 1..Len(processed) : Remaining(k)})
    /\ \A n \in 1..Len(all_trades) : all_trades[n] # <<>>
    /\ pc = "main" => ~logged.done
    /\ pc = "main_done" =>
          /\ Len(processed) = Len(Tickers)
          /\ logged.done <=> \E k \in 1..Len(processed) : Remaining(k)
          /\ logged.trade_log = LogsUpTo(Len(processed))
          /\ Len(logged.trade_log) = TradesUpTo(Len(processed))
          /\ logged.summary.total_trades = Len(logged.trade_log)

\* the list handled to its end: the first ticker's fetch gave nothing, the
\* second ran to no trade, the third to no result, and nothing was logged
C11_WitnessNothing ==
    /\ pc = "main_done"
    /\ processed[1].fetched_none
    /\ processed[2].results.kind = "summary" /\ processed[2].results.total_trades = 0
    /\ ~processed[3].fetched_none /\ processed[3].results.kind = "None"
    /\ ~logged.done

\* the first and the third ticker with two trades each, the second without
\* data: the four records are logged, the first ticker's first
C11_Witness ==
    /\ pc = "main_done"
    /\ processed[1].results.total_trades = 2
    /\ processed[2].fetched_none
    /\ processed[3].results.total_trades = 2
    /\ logged.done
    /\ Len(logged.trade_log) = 4
    /\ logged.trade_log[2].Stock = Tickers[1]
    /\ logged.trade_log[3].Stock = Tickers[3]

-----------------------------------------------------------------------------
(* C12 *)

\* frame is the prices as they are, or the prices with the indicator values
\* of every bar in three more columns (None where these cannot be computed)
PricesOrFeatures(frame) ==
    \/ frame = stock_data
    \/ frame.none /\ ~HasClose
    \/ /\ HasClose
       /\ ~frame.none
       /\ frame.cols = stock_data.cols \cup {"RSI", "SMA_20", "SMA_50"}
       /\ frame.rows = FeatureBars

\* C12: run_backtest and check_buy_signal leave the series they are given as
\* it was: when run_backtest is over, with whatever outcome, the caller's
\* price frame has the columns and the bars it had before; when
\* check_buy_signal is over, the frame it was given is still the prices, or
\* the prices with the indicators, with every bar, undefined ones included.
C12_InputsUntouched ==
    [][ /\ (pc = "idle" /\ pc' = "backtest") => stock_data' = stock_data
        /\ (pc = "idle" /\ pc' = "check") =>
              /\ stock_data' = stock_data
              /\ PricesOrFeatures(check_arg') ]_vars

\* a run that computed indicators, cleaned a bar away and returned a summary,
\* over a frame that still has its price columns only and all its bars
C12_Witness ==
    /\ pc = "backtest"
    /\ bt_result.kind = "summary"
    /\ stock_data.cols = {"Open", "Close"}
    /\ Len(stock_data.rows) = MaxLen
    /\ Len(Bars) < Len(stock_data.rows)

\* a check that cleaned a bar away and returned a signal, over a frame that
\* still has the bar
C12_WitnessCheck ==
    /\ pc = "check"
    /\ sig_result.buy_signal
    /\ Len(check_arg.rows) = MaxLen
    /\ Len(CheckedBars) < Len(check_arg.rows)

-----------------------------------------------------------------------------
(* C13 *)

\* C13: the signal condition is never evaluated on a bar with an undefined
\* value: every row run_backtest's scan or check_buy_signal has read as
\* today or yesterday has its RSI, SMA_20 and SMA_50 defined, and the two
\* rows are neighbours in the cleaned series: at index i of the scan they are
\* its bars i and i-1, in check_buy_signal its last two bars.
C13_ReadsAreDefined ==
    \A r \in bars_read :
        /\ r.today.RSI # NaN /\ r.today.SMA_20 # NaN /\ r.today.SMA_50 # NaN
        /\ r.yesterday.RSI # NaN /\ r.yesterday.SMA_20 # NaN /\ r.yesterday.SMA_50 # NaN
        /\ pc = "backtest" =>
              /\ r.i >= 1 /\ r.i + 1 <= Len(Bars)
              /\ r.today = Bars[r.i + 1] /\ r.yesterday = Bars[r.i]
        /\ pc \in {"check", "live"} =>
              /\ Len(CheckedBars) >= 2
              /\ r.today = CheckedBars[Len(CheckedBars)]
              /\ r.yesterday = CheckedBars[Len(CheckedBars) - 1]

\* a scan over a series whose first bar was undefined and removed: what it
\* read as yesterday at index 1 is the second bar of the prices
C13_Witness ==
    /\ pc = "backtest"
    /\ HasClose
    /\ Len(Bars) < Len(stock_data.rows)
    /\ ta_values[1].SMA_50 = NaN
    /\ \E r \in bars_read : r.i = 1 /\ r.yesterday.Date = stock_data.rows[2].Date

\* a check of a frame of two defined bars after an undefined one
C13_WitnessCheck ==
    /\ pc = "check"
    /\ Len(check_arg.rows) = 3
    /\ Len(CheckedBars) = 2
    /\ bars_read # {}

-----------------------------------------------------------------------------
(* C14 *)

\* the index in the cleaned series of the signal behind the k-th record: the
\* bar before the one the record bought on
SignalIndexOf(k) ==
    (CHOOSE p \in 1..Len(Bars) : Bars[p].Date = bt_result.trade_log[k].BuyDate) - 2

\* C14: the entry condition never holds at two neighbouring indices of a
\* cleaned series; so in every trade log the signals of two records that
\* follow each other are at least 2 indices apart, buy dates go strictly up,
\* and the holding time of a record reaches into the next one's exactly when
\* their signals are no more than 5 indices apart.
C14_NoAdjacentSignals ==
    (pc = "backtest" /\ bt_result.kind = "summary") =>
        /\ \A i \in 1..(Len(Bars) - 2) :
              ~(EntryCondition(Bars, i) /\ EntryCondition(Bars, i + 1))
        /\ \A k \in 1..Len(bt_result.trade_log) :
              \E p \in 1..Len(Bars) : Bars[p].Date = bt_result.trade_log[k].BuyDate
        /\ \A k \in 1..(Len(bt_result.trade_log) - 1) :
              /\ SignalIndexOf(k + 1) - SignalIndexOf(k) >= 2
              /\ bt_result.trade_log[k].BuyDate < bt_result.trade_log[k + 1].BuyDate
              /\ (bt_result.trade_log[k + 1].BuyDate <= bt_result.trade_log[k].SellDate)
                    <=> (SignalIndexOf(k + 1) - SignalIndexOf(k) <= 5)

\* a log of two records whose signals are 2 indices apart, the second bought
\* while the first is held
C14_Witness ==
    /\ pc = "backtest"
    /\ bt_result.kind = "summary"
    /\ Len(bt_result.trade_log) = 2
    /\ SignalIndexOf(2) - SignalIndexOf(1) = 2
    /\ bt_result.trade_log[2].BuyDate < bt_result.trade_log[1].SellDate

\* one record, for a signal at an index whose next bar has the RSI under the
\* threshold and SMA_20 above SMA_50 too, and is visited by the scan
C14_WitnessLevelStays ==
    /\ pc = "backtest"
    /\ bt_result.kind = "summary"
    /\ Len(bt_result.trade_log) = 1
    /\ Len(Bars) >= SignalIndexOf(1) + 8
    /\ Bars[SignalIndexOf(1) + 2].RSI < 30
    /\ Bars[SignalIndexOf(1) + 2].SMA_20 > Bars[SignalIndexOf(1) + 2].SMA_50

-----------------------------------------------------------------------------
(* C15 *)

\* C15: a cleaned series of exactly 7 bars gets past the guard on the length
\* and leaves the scan nothing to visit: run_backtest returns the summary
\* without trades; a trade takes at least 8 cleaned bars; and a cleaned
\* series of L >= 7 bars gives a summary with at most L - 7 records.
C15_SevenBarBoundary ==
    (pc = "backtest" /\ HasClose) =>
        /\ Len(Bars) = 7 =>
              /\ bt_result.kind = "summary"
              /\ bt_result.total_trades = 0
              /\ bt_result.trade_log = <<>>
        /\ bt_result.trade_log # <<>> => Len(Bars) >= 8
        /\ Len(Bars) >= 7 =>
              /\ bt_result.kind = "summary"
              /\ Len(bt_result.trade_log) <= Len(Bars) - 7
              /\ bt_result.total_trades <= Len(Bars) - 7

\* 7 cleaned bars with the entry condition true at index 1, and the summary
\* without trades
C15_Witness ==
    /\ pc = "backtest"
    /\ HasClose
    /\ Len(Bars) = 7
    /\ EntryCondition(Bars, 1)
    /\ bt_result.kind = "summary"
    /\ bt_result.total_trades = 0

\* 8 cleaned bars and one record: the bound L - 7 is met
C15_WitnessOneTrade ==
    /\ pc = "backtest"
    /\ HasClose
    /\ Len(Bars) = 8
    /\ Len(bt_result.trade_log) = 1

=============================================================================
